---------------------------- MODULE Spec2Model ----------------------------
(***************************************************************************)
(* Model of youngkin/gohttps: the basic HTTPS server, the advanced         *)
(* (client-certificate verifying) HTTPS server and the HTTPS client.       *)
(*                                                                         *)
(* One server process (basic or advanced, fixed at start) and one client   *)
(* process run side by side; third-party TLS peers (curl, other clients)   *)
(* may also connect to the server.  Files on disk, the TLS handshake and   *)
(* the HTTP exchange are modelled by what the Go standard library does     *)
(* with the values the programs hand to it.                                *)
(***************************************************************************)
EXTENDS Integers, Sequences, FiniteSets, TLC

(***************************************************************************)
(* Bounds of the model.                                                    *)
(***************************************************************************)
\* -certopt is drawn from (0 - CertOptSlack) .. (4 + CertOptSlack)
CertOptSlack == 1
\* number of connections third-party peers may open during one run
MaxForeign == 1

(***************************************************************************)
(* crypto/tls constants.                                                   *)
(***************************************************************************)
VersionTLS10 == 769
VersionTLS11 == 770
VersionTLS12 == 771
VersionTLS13 == 772

NoClientCert == 0
RequestClientCert == 1
RequireAnyClientCert == 2
VerifyClientCertIfGiven == 3
RequireAndVerifyClientCert == 4

(***************************************************************************)
(* Files on disk.  A file is unreadable (absent), or holds a PEM           *)
(* certificate, a PEM private key, or bytes that are not PEM at all.       *)
(***************************************************************************)
NoCert == [subject |-> "", issuer |-> "", key |-> ""]

NoFile == [readable |-> FALSE, kind |-> "none", cert |-> NoCert, key |-> ""]

CertFile(subject, issuer, key) ==
    [readable |-> TRUE, kind |-> "cert",
     cert |-> [subject |-> subject, issuer |-> issuer, key |-> key], key |-> ""]

KeyFile(key) == [readable |-> TRUE, kind |-> "key", cert |-> NoCert, key |-> key]

JunkFile == [readable |-> TRUE, kind |-> "junk", cert |-> NoCert, key |-> ""]

\* ioutil.ReadFile: the file behind a path ("" and unknown paths do not open)
ReadFile(path) ==
    CASE path = "ca.pem"      -> CertFile("CA1", "CA1", "k_ca1")
      [] path = "garbage.pem" -> JunkFile
      [] path = "srv.crt"     -> CertFile("localhost", "CA1", "k_srv")
      [] path = "srv.key"     -> KeyFile("k_srv")
      [] path = "client.crt"  -> CertFile("client", "CA1", "k_client")
      [] path = "client.key"  -> KeyFile("k_client")
      [] path = "rogue.crt"   -> CertFile("rogue", "CA2", "k_rogue")
      [] path = "rogue.key"   -> KeyFile("k_rogue")
      [] OTHER                -> NoFile

\* x509.NewCertPool
NewCertPool == [set |-> TRUE, subjects |-> {}]

\* a nil *x509.CertPool
NilCertPool == [set |-> FALSE, subjects |-> {}]

\* (*CertPool).AppendCertsFromPEM: adds the certificates found in the data;
\* data without a certificate adds nothing (the callers drop the ok result)
AppendCertsFromPEM(pool, data) ==
    IF data.kind = "cert"
    THEN [pool EXCEPT !.subjects = @ \cup {data.cert.subject}]
    ELSE pool

\* tls.LoadX509KeyPair: both files must read and parse and the key must
\* belong to the certificate
LoadX509KeyPair(certFile, keyFile) ==
    LET c == ReadFile(certFile)
        k == ReadFile(keyFile)
        ok == /\ c.readable /\ k.readable
              /\ c.kind = "cert" /\ k.kind = "key"
              /\ c.cert.key = k.key
    IN  [err |-> ~ok, cert |-> IF ok THEN c.cert ELSE NoCert]


(***************************************************************************)
(* Command lines.                                                          *)
(***************************************************************************)
CertOpts == (0 - CertOptSlack) .. (RequireAndVerifyClientCert + CertOptSlack)

\* the basic server has no -cacert and no -certopt flag
SimpleServerFlags ==
    [help : BOOLEAN, host : {"", "localhost"},
     srvcert : {"", "srv.crt", "missing.crt"}, srvkey : {"", "srv.key"},
     cacert : {""}, certopt : {0}]

AdvancedServerFlags ==
    [help : BOOLEAN, host : {"", "localhost"},
     srvcert : {"", "srv.crt", "missing.crt"}, srvkey : {"", "srv.key"},
     cacert : {"", "ca.pem", "garbage.pem", "missing.pem"}, certopt : CertOpts]

ClientFlags ==
    [help : BOOLEAN, srvhost : {"localhost"},
     cacert : {"", "ca.pem", "garbage.pem", "missing.pem"},
     clientcert : {"", "client.crt", "rogue.crt"},
     clientkey : {"", "client.key", "rogue.key"}]

(***************************************************************************)
(* State.                                                                  *)
(***************************************************************************)
VARIABLES
    variant,      \* which server executable runs: "simple" or "advanced"
    sflags,       \* the server's parsed flags
    spc,          \* server: "main", "build", "listen", "serving", "exit0", "fatal"
    sUsage,       \* server: the usage text was printed
    sCaRead,      \* server: ioutil.ReadFile was called on the CA file
    tlsConfig,    \* server: the tls.Config of the http.Server
    srvCert,      \* server: the certificate ListenAndServeTLS loaded
    minVersion,   \* server: the lowest TLS version the listener negotiates
    sReadErrors,  \* server: requests so far whose body could not be read
    cflags,       \* the client's parsed flags
    cpc,          \* client: "main", "keypair", "cafile", "do", "await",
                  \*         "readbody", "done", "exit0", "fatal"
    cUsage,       \* client: the usage text was printed
    cert,         \* client: the tls.Certificate handed to the transport
    caCertPool,   \* client: RootCAs
    cRequests,    \* client: number of calls of client.Do
    resp,         \* client: the http.Response client.Do returned
    cPrinted,     \* client: the status and body printed
    conn,         \* the connection being set up or served
    foreign       \* connections third-party peers have opened so far

svars == <<variant, sflags, spc, sUsage, sCaRead, tlsConfig, srvCert, minVersion,
           sReadErrors>>
cvars == <<cflags, cpc, cUsage, cert, caCertPool, cRequests, resp, cPrinted>>
nvars == <<conn, foreign>>
vars == <<svars, cvars, nvars>>

NoTLSConfig ==
    [built |-> FALSE, ServerName |-> "", ClientAuth |-> NoClientCert,
     ClientCAs |-> NilCertPool, MinVersion |-> 0]

NoResponse == [received |-> FALSE, Status |-> "", Body |-> ""]

NoConn ==
    [state |-> "none", peer |-> "", cert |-> NoCert, maxVersion |-> 0,
     trusts |-> FALSE, body |-> "", version |-> 0, requested |-> FALSE,
     readFailed |-> FALSE, resp |-> ""]

Init ==
    /\ variant \in {"simple", "advanced"}
    /\ sflags \in (IF variant = "simple" THEN SimpleServerFlags ELSE AdvancedServerFlags)
    /\ spc = "main"
    /\ sUsage = FALSE
    /\ sCaRead = FALSE
    /\ tlsConfig = NoTLSConfig
    /\ srvCert = NoCert
    /\ minVersion = 0
    /\ sReadErrors = 0
    /\ cflags \in ClientFlags
    /\ cpc = "main"
    /\ cUsage = FALSE
    /\ cert = NoCert
    /\ caCertPool = NilCertPool
    /\ cRequests = 0
    /\ resp = NoResponse
    /\ cPrinted = NoResponse
    /\ conn = NoConn
    /\ foreign = 0

(***************************************************************************)
(* The servers' main, up to the listener.                                  *)
(***************************************************************************)
\* basic server: if *host == "" || *serverCert == "" || *srvKey == ""
SimpleRequiredMissing(f) == f.host = "" \/ f.srvcert = "" \/ f.srvkey = ""
\* slip: the advanced server keeps the basic server's check, without -cacert
AdvancedRequiredMissingNoCA(f) == f.host = "" \/ f.srvcert = "" \/ f.srvkey = ""

\* advanced server: if *host == "" || *serverCert == "" || *caCert == "" || *srcKey == ""
AdvancedRequiredMissing(f) ==
    f.host = "" \/ f.srvcert = "" \/ f.cacert = "" \/ f.srvkey = ""
\* slip: the upper limit is off by one
CertOptInvalidOffByOne(certOpt) == certOpt < 0 \/ certOpt > 5

\* advanced server: if *certOpt < 0 || *certOpt > 4
CertOptInvalid(certOpt) == certOpt < 0 \/ certOpt > 4

\* flag handling of either server: help prints the usage and returns, a
\* missing required flag or an invalid -certopt is log.Fatalf with the usage
ServerMain ==
    /\ spc = "main"
    /\ IF sflags.help
       THEN spc' = "exit0" /\ sUsage' = TRUE
       ELSE IF \/ variant = "simple" /\ SimpleRequiredMissing(sflags)
               \/ variant = "advanced" /\ AdvancedRequiredMissing(sflags)
            THEN spc' = "fatal" /\ sUsage' = TRUE
            ELSE IF variant = "advanced" /\ CertOptInvalid(sflags.certopt)
                 THEN spc' = "fatal" /\ sUsage' = TRUE
                 ELSE spc' = "build" /\ sUsage' = sUsage
    /\ UNCHANGED <<variant, sflags, sCaRead, tlsConfig, srvCert, minVersion, sReadErrors>>
    /\ UNCHANGED <<cvars, nvars>>
\* slip: the pool is loaded only for the strictest policy
NeedsCAPoolStrictOnly(certOpt) == certOpt > VerifyClientCertIfGiven

\* getTLSConfig: if certOpt > tls.RequestClientCert
NeedsCAPool(certOpt) == certOpt > RequestClientCert
\* slip: the ClientAuth line is left at tls.NoClientCert
getTLSConfigNoClientCert(host, caCertFile, certOpt) ==
    LET caCert == ReadFile(caCertFile)
        read == certOpt > RequestClientCert
    IN  [read |-> read,
         fatal |-> read /\ ~caCert.readable,
         config |->
            [built |-> TRUE, ServerName |-> host, ClientAuth |-> NoClientCert,
             ClientCAs |-> IF read
                           THEN AppendCertsFromPEM(NewCertPool, caCert)
                           ELSE NilCertPool,
             MinVersion |-> VersionTLS12]]

\* getTLSConfig: reads the CA file when the policy needs it (a failed read is
\* log.Fatal) and returns the tls.Config
getTLSConfig(host, caCertFile, certOpt) ==
    LET caCert == ReadFile(caCertFile)
        read == NeedsCAPool(certOpt)
    IN  [read |-> read,
         fatal |-> read /\ ~caCert.readable,
         config |->
            [built |-> TRUE, ServerName |-> host, ClientAuth |-> certOpt,
             ClientCAs |-> IF read
                           THEN AppendCertsFromPEM(NewCertPool, caCert)
                           ELSE NilCertPool,
             MinVersion |-> VersionTLS12]]

\* basic server: TLSConfig: &tls.Config{ServerName: *host}
SimpleTLSConfig(host) ==
    [built |-> TRUE, ServerName |-> host, ClientAuth |-> NoClientCert,
     ClientCAs |-> NilCertPool, MinVersion |-> 0]

\* server := &http.Server{...} and http.HandleFunc
ServerBuild ==
    /\ spc = "build"
    /\ IF variant = "simple"
       THEN /\ tlsConfig' = SimpleTLSConfig(sflags.host)
            /\ spc' = "listen"
            /\ sCaRead' = sCaRead
       ELSE LET r == getTLSConfig(sflags.host, sflags.cacert, sflags.certopt)
            IN  /\ sCaRead' = r.read
                /\ IF r.fatal
                   THEN spc' = "fatal" /\ tlsConfig' = tlsConfig
                   ELSE spc' = "listen" /\ tlsConfig' = r.config
    /\ UNCHANGED <<variant, sflags, sUsage, srvCert, minVersion, sReadErrors>>
    /\ UNCHANGED <<cvars, nvars>>

\* the lowest version a tls.Config accepts: MinVersion, or for a zero
\* MinVersion the default of the Go release the server was built with
\* (TLS 1.0 before Go 1.22, TLS 1.2 since)
EffectiveMinVersions(config) ==
    IF config.MinVersion = 0 THEN {VersionTLS10, VersionTLS12} ELSE {config.MinVersion}

\* server.ListenAndServeTLS(certFile, keyFile): loads the key pair and
\* listens; any error it returns is log.Fatal
ServerListen ==
    /\ spc = "listen"
    /\ LET pair == LoadX509KeyPair(sflags.srvcert, sflags.srvkey)
       IN  \/ /\ pair.err
              /\ spc' = "fatal"
              /\ UNCHANGED <<srvCert, minVersion>>
           \/ /\ ~pair.err
              /\ spc' = "fatal"       \* net.Listen failed (port in use, no permission)
              /\ UNCHANGED <<srvCert, minVersion>>
           \/ /\ ~pair.err
              /\ spc' = "serving"
              /\ srvCert' = pair.cert
              /\ minVersion' \in EffectiveMinVersions(tlsConfig)
    /\ UNCHANGED <<variant, sflags, sUsage, sCaRead, tlsConfig, sReadErrors>>
    /\ UNCHANGED <<cvars, nvars>>

(***************************************************************************)
(* TLS handshake and the request handler.                                  *)
(***************************************************************************)
\* what the server's ClientAuth asks of the peer's certificate:
\*   NoClientCert                not requested, not required
\*   RequestClientCert           requested, not required, not verified
\*   RequireAnyClientCert        required, any certificate is acceptable
\*   VerifyClientCertIfGiven     requested, if present must chain to ClientCAs
\*   RequireAndVerifyClientCert  required and must chain to ClientCAs
ClientCertRequested(config) == config.ClientAuth >= RequestClientCert

ClientCertAccepted(config, peerCert) ==
    LET given == ClientCertRequested(config) /\ peerCert # NoCert
        chains == peerCert.issuer \in config.ClientCAs.subjects
    IN  CASE config.ClientAuth = NoClientCert               -> TRUE
          [] config.ClientAuth = RequestClientCert          -> TRUE
          [] config.ClientAuth = RequireAnyClientCert       -> given
          [] config.ClientAuth = VerifyClientCertIfGiven    -> ~given \/ chains
          [] config.ClientAuth = RequireAndVerifyClientCert -> given /\ chains
          [] OTHER                                          -> FALSE

\* the version both sides support, 0 if there is none
Negotiated(peerMax, serverMin) ==
    LET v == IF peerMax < VersionTLS13 THEN peerMax ELSE VersionTLS13
    IN  IF v >= serverMin THEN v ELSE 0

\* Certificates: []tls.Certificate{cert}, RootCAs: caCertPool: the client
\* accepts a server certificate issued by a CA of the pool for the host dialled
ServerCertTrusted(roots, host, serverCert) ==
    /\ serverCert.issuer \in roots.subjects
    /\ serverCert.subject = host

HandshakeOK(c) ==
    /\ Negotiated(c.maxVersion, minVersion) # 0
    /\ c.trusts
    /\ ClientCertAccepted(tlsConfig, c.cert)

\* the listener accepts the connection and runs the TLS handshake
ServerHandshake ==
    /\ spc = "serving"
    /\ conn.state = "hello"
    /\ conn' = [conn EXCEPT !.state = IF HandshakeOK(conn) THEN "established" ELSE "rejected",
                            !.version = Negotiated(conn.maxVersion, minVersion),
                            !.requested = ClientCertRequested(tlsConfig)]
    /\ UNCHANGED <<svars, cvars, foreign>>

\* what ioutil.ReadAll reports when the request body cannot be read
ReadErr == "unexpected EOF"

\* fmt.Sprintf("error reading request body: %s", err)
ErrorBody(err) == "error reading request body: " \o err
\* slip: the basic server answers with the advanced server's text
SimpleGreetingCopied(body) == "Hello, " \o body \o " from Advanced Server!"

\* fmt.Sprintf("Hello, %s from Simple Server!", body)
SimpleGreeting(body) == "Hello, " \o body \o " from Simple Server!"

\* fmt.Sprintf("Hello, %s from Advanced Server!", body)
AdvancedGreeting(body) == "Hello, " \o body \o " from Advanced Server!"
\* slip: the read error is dropped and whatever was read is echoed
HandlerDropsError(v, sent, readFails) ==
    IF v = "simple" THEN SimpleGreeting(sent) ELSE AdvancedGreeting(sent)

\* the handler of "/": a body that cannot be read is replaced by the error text
Handler(v, sent, readFails) ==
    LET body == IF readFails THEN ErrorBody(ReadErr) ELSE sent
    IN  IF v = "simple" THEN SimpleGreeting(body) ELSE AdvancedGreeting(body)

\* the server runs the handler on an established connection and writes the response
ServerHandler ==
    /\ spc = "serving"
    /\ conn.state = "established"
    /\ \E readFails \in BOOLEAN :
          /\ conn' = [conn EXCEPT !.state = "responded",
                                  !.readFailed = readFails,
                                  !.resp = Handler(variant, conn.body, readFails)]
          /\ sReadErrors' = IF readFails THEN sReadErrors + 1 ELSE sReadErrors
    /\ UNCHANGED <<variant, sflags, spc, sUsage, sCaRead, tlsConfig, srvCert, minVersion>>
    /\ UNCHANGED <<cvars, foreign>>

(***************************************************************************)
(* Third-party peers.                                                      *)
(***************************************************************************)
PeerVersions == {VersionTLS10, VersionTLS11, VersionTLS12, VersionTLS13}

PeerCerts == {NoCert, ReadFile("client.crt").cert, ReadFile("rogue.crt").cert}

PeerBodies == {"", "Gopher"}

Hello(peer, c, v, t, b) ==
    [state |-> "hello", peer |-> peer, cert |-> c, maxVersion |-> v, trusts |-> t,
     body |-> b, version |-> 0, requested |-> FALSE, readFailed |-> FALSE, resp |-> ""]

ForeignConnect ==
    /\ spc = "serving"
    /\ conn.state = "none"
    /\ foreign < MaxForeign
    /\ foreign' = foreign + 1
    /\ \E c \in PeerCerts, v \in PeerVersions, t \in BOOLEAN, b \in PeerBodies :
          conn' = Hello("foreign", c, v, t, b)
    /\ UNCHANGED <<svars, cvars>>

ForeignClose ==
    /\ conn.peer = "foreign"
    /\ conn.state \in {"rejected", "responded"}
    /\ conn' = NoConn
    /\ UNCHANGED <<svars, cvars, foreign>>

(***************************************************************************)
(* The client's main.                                                      *)
(***************************************************************************)
\* if *caCertFile == ""
ClientRequiredMissing(f) == f.cacert = ""

ClientMain ==
    /\ cpc = "main"
    /\ IF cflags.help
       THEN cpc' = "exit0" /\ cUsage' = TRUE
       ELSE IF ClientRequiredMissing(cflags)
            THEN cpc' = "fatal" /\ cUsage' = TRUE
            ELSE cpc' = "keypair" /\ cUsage' = cUsage
    /\ UNCHANGED <<cflags, cert, caCertPool, cRequests, resp, cPrinted>>
    /\ UNCHANGED <<svars, nvars>>
\* slip: || instead of &&
WantsKeyPairEither(f) == f.clientcert # "" \/ f.clientkey # ""

\* if *clientCertFile != "" && *clientKeyFile != ""
WantsKeyPair(f) == f.clientcert # "" /\ f.clientkey # ""

\* the optional tls.LoadX509KeyPair; an error is log.Fatalf
ClientKeyPair ==
    /\ cpc = "keypair"
    /\ IF WantsKeyPair(cflags)
       THEN LET pair == LoadX509KeyPair(cflags.clientcert, cflags.clientkey)
            IN  IF pair.err
                THEN cpc' = "fatal" /\ cert' = cert
                ELSE cpc' = "cafile" /\ cert' = pair.cert
       ELSE cpc' = "cafile" /\ cert' = cert
    /\ UNCHANGED <<cflags, cUsage, caCertPool, cRequests, resp, cPrinted>>
    /\ UNCHANGED <<svars, nvars>>

\* ioutil.ReadFile(*caCertFile), x509.NewCertPool, AppendCertsFromPEM
ClientCAFile ==
    /\ cpc = "cafile"
    /\ LET caCert == ReadFile(cflags.cacert)
       IN  IF ~caCert.readable
           THEN cpc' = "fatal" /\ caCertPool' = caCertPool
           ELSE cpc' = "do" /\ caCertPool' = AppendCertsFromPEM(NewCertPool, caCert)
    /\ UNCHANGED <<cflags, cUsage, cert, cRequests, resp, cPrinted>>
    /\ UNCHANGED <<svars, nvars>>

\* the request body: bytes.NewBuffer([]byte("World"))
RequestBody == "World"

\* client.Do(req): dials the server; with no listener the dial fails, which
\* is a *url.Error and log.Fatalf
ClientDo ==
    /\ cpc = "do"
    /\ cRequests' = cRequests + 1
    /\ \/ /\ spc # "serving"
          /\ cpc' = "fatal"
          /\ conn' = conn
       \/ /\ spc = "serving"
          /\ conn.state = "none"
          /\ cpc' = "await"
          /\ conn' = Hello("client", cert, VersionTLS13,
                           ServerCertTrusted(caCertPool, cflags.srvhost, srvCert),
                           RequestBody)
    /\ UNCHANGED <<cflags, cUsage, cert, caCertPool, resp, cPrinted>>
    /\ UNCHANGED <<svars, foreign>>
\* slip: a failed request is issued again
ClientDoReturnsRetry ==
    /\ cpc = "await"
    /\ conn.peer = "client"
    /\ \/ /\ conn.state = "rejected"
          /\ cpc' = "do"
          /\ resp' = resp
       \/ /\ conn.state = "responded"
          /\ cpc' = "readbody"
          /\ resp' = [received |-> TRUE, Status |-> "200 OK", Body |-> conn.resp]
    /\ conn' = NoConn
    /\ UNCHANGED <<cflags, cUsage, cert, caCertPool, cRequests, cPrinted>>
    /\ UNCHANGED <<svars, foreign>>

\* client.Do returns: an error for a failed handshake, else the response
ClientDoReturns ==
    /\ cpc = "await"
    /\ conn.peer = "client"
    /\ \/ /\ conn.state = "rejected"
          /\ cpc' = "fatal"
          /\ resp' = resp
       \/ /\ conn.state = "responded"
          /\ cpc' = "readbody"
          /\ resp' = [received |-> TRUE, Status |-> "200 OK", Body |-> conn.resp]
    /\ conn' = NoConn
    /\ UNCHANGED <<cflags, cUsage, cert, caCertPool, cRequests, cPrinted>>
    /\ UNCHANGED <<svars, foreign>>

\* http.Client{Timeout: 15 * time.Second}: client.Do gives up with an error
ClientTimeout ==
    /\ cpc = "await"
    /\ conn.peer = "client"
    /\ cpc' = "fatal"
    /\ conn' = NoConn
    /\ UNCHANGED <<cflags, cUsage, cert, caCertPool, cRequests, resp, cPrinted>>
    /\ UNCHANGED <<svars, foreign>>

\* ioutil.ReadAll(resp.Body): an error is log.Fatalf, else status and body
\* are printed
ClientReadBody ==
    /\ cpc = "readbody"
    /\ \/ /\ cpc' = "fatal"
          /\ cPrinted' = cPrinted
       \/ /\ cpc' = "done"
          /\ cPrinted' = resp
    /\ UNCHANGED <<cflags, cUsage, cert, caCertPool, cRequests, resp>>
    /\ UNCHANGED <<svars, nvars>>

(***************************************************************************)
(* Specification.                                                          *)
(***************************************************************************)
Next ==
    \/ ServerMain
    \/ ServerBuild
    \/ ServerListen
    \/ ServerHandshake
    \/ ServerHandler
    \/ ForeignConnect
    \/ ForeignClose
    \/ ClientMain
    \/ ClientKeyPair
    \/ ClientCAFile
    \/ ClientDo
    \/ ClientDoReturns
    \/ ClientTimeout
    \/ ClientReadBody

Spec == Init /\ [][Next]_vars

(***************************************************************************)
(* Properties.                                                             *)
(***************************************************************************)
Decided == {"established", "rejected", "responded"}

Accepted == {"established", "responded"}

\* the CA the -cacert file names ("" when the file holds no certificate)
ConfiguredCA == ReadFile(sflags.cacert).cert.subject

\* the kind of client a peer certificate makes
ClientKind(c) ==
    IF c = NoCert THEN "none"
    ELSE IF ConfiguredCA # "" /\ c.issuer = ConfiguredCA THEN "signed" ELSE "unsigned"

\* the policy table: the client kinds each value accepts
TableAccepts(v) ==
    CASE v = 0 -> {"none", "unsigned", "signed"}
      [] v = 1 -> {"none", "unsigned", "signed"}
      [] v = 2 -> {"unsigned", "signed"}
      [] v = 3 -> {"none", "signed"}
      [] v = 4 -> {"signed"}

\* C1: for every -certopt value 0..4 the advanced server accepts or rejects
\* a peer (no certificate, certificate not signed by the CA, certificate
\* signed by the CA) as the policy table says, and asks for a certificate
\* exactly when the value is not 0
C1_PolicyTable ==
    (/\ variant = "advanced"
     /\ conn.state \in Decided
     /\ conn.version # 0
     /\ conn.trusts)
    => /\ sflags.certopt \in 0..4
       /\ (conn.state \in Accepted) <=> (ClientKind(conn.cert) \in TableAccepts(sflags.certopt))
       /\ conn.requested <=> (sflags.certopt # 0)

C1_Witness ==
    /\ variant = "advanced"
    /\ sflags.certopt = 3
    /\ conn.state = "established"
    /\ ClientKind(conn.cert) = "signed"

\* C2: an advanced server started without -help, with every required flag
\* and a -certopt outside 0..4 ends in a fatal usage error; it reads no CA
\* file, builds no TLS configuration and never listens
C2_InvalidCertOptFatal ==
    (/\ variant = "advanced"
     /\ ~sflags.help
     /\ sflags.host # "" /\ sflags.srvcert # "" /\ sflags.cacert # "" /\ sflags.srvkey # ""
     /\ (sflags.certopt < 0 \/ sflags.certopt > 4))
    => /\ spc \in {"main", "fatal"}
       /\ spc = "fatal" => sUsage
       /\ ~sCaRead
       /\ ~tlsConfig.built

C2_Witness ==
    /\ variant = "advanced"
    /\ ~sflags.help
    /\ sflags.host # "" /\ sflags.srvcert # "" /\ sflags.cacert # "" /\ sflags.srvkey # ""
    /\ sflags.certopt = 5
    /\ spc = "fatal"
    /\ sUsage

\* C3: an advanced server with a policy value above 1 whose -cacert is
\* omitted, unreadable or not parseable as PEM certificates never listens
C3_BadCAFileNeverListens ==
    (/\ variant = "advanced"
     /\ sflags.certopt > 1
     /\ \/ sflags.cacert = ""
        \/ ~ReadFile(sflags.cacert).readable
        \/ ReadFile(sflags.cacert).kind # "cert")
    => spc # "serving"

\* C4: with a required flag omitted the process prints the usage and exits
\* without a network operation: the server never listens, the client never
\* sends a request
C4_MissingFlagNoNetwork ==
    /\ (\/ variant = "simple"
           /\ (sflags.host = "" \/ sflags.srvcert = "" \/ sflags.srvkey = "")
        \/ variant = "advanced"
           /\ (sflags.host = "" \/ sflags.srvcert = "" \/ sflags.srvkey = ""
                 \/ sflags.cacert = ""))
       => /\ spc \in {"main", "exit0", "fatal"}
          /\ spc # "main" => sUsage
          /\ ~tlsConfig.built
    /\ cflags.cacert = ""
       => /\ cpc \in {"main", "exit0", "fatal"}
          /\ cpc # "main" => cUsage
          /\ cRequests = 0

C4_Witness ==
    /\ variant = "advanced"
    /\ ~sflags.help
    /\ sflags.host # "" /\ sflags.srvcert # "" /\ sflags.srvkey # ""
    /\ sflags.cacert = ""
    /\ spc = "fatal"
    /\ ~cflags.help
    /\ cflags.cacert = ""
    /\ cpc = "fatal"

\* C5: against an advanced server with -certopt 4 a client that presents no
\* certificate never gets a response: its handshake is rejected, the handler
\* does not run for its connection, and once its request is over the client
\* is in the fatal state with nothing printed
C5_NoCertNoResponse ==
    (/\ variant = "advanced"
     /\ sflags.certopt = 4
     /\ (cflags.clientcert = "" \/ cflags.clientkey = ""))
    => /\ conn.peer = "client" => conn.state \in {"hello", "rejected"}
       /\ ~resp.received
       /\ ~cPrinted.received
       /\ cpc \notin {"readbody", "done"}
       /\ (cRequests > 0 /\ cpc # "await") => cpc = "fatal"

C5_Witness ==
    /\ variant = "advanced"
    /\ sflags.certopt = 4
    /\ cflags.clientcert = "" /\ cflags.clientkey = ""
    /\ conn.peer = "client"
    /\ conn.state = "rejected"
    /\ conn.trusts
    /\ conn.version # 0

\* C6: a request whose body B was read gets the response "Hello, B from
\* Simple Server!" or "Hello, B from Advanced Server!"; the client's "World"
\* comes back as "Hello, World from Simple Server!" from the basic server and
\* as "Hello, World from Advanced Server!" from the advanced one
C6_GreetingEchoesBody ==
    /\ (conn.state = "responded" /\ ~conn.readFailed)
       => /\ conn.resp = "Hello, " \o conn.body
                           \o (IF variant = "simple" THEN " from Simple Server!"
                                                     ELSE " from Advanced Server!")
          /\ conn.peer = "client"
             => conn.resp = (IF variant = "simple"
                             THEN "Hello, World from Simple Server!"
                             ELSE "Hello, World from Advanced Server!")
    /\ resp.received
       => resp.Body \in
            (IF variant = "simple"
             THEN {"Hello, World from Simple Server!",
                   "Hello, error reading request body: unexpected EOF from Simple Server!"}
             ELSE {"Hello, World from Advanced Server!",
                   "Hello, error reading request body: unexpected EOF from Advanced Server!"})
    /\ cPrinted.received => cPrinted = resp

C6_Witness ==
    /\ variant = "advanced"
    /\ sflags.certopt = 4
    /\ cert.issuer = "CA1"
    /\ cpc = "done"
    /\ cPrinted.Body = "Hello, World from Advanced Server!"

\* the server cannot go on: help printed, or log.Fatal
ServerOver == spc \in {"exit0", "fatal"}

\* C7: a request body that cannot be read does not end the server or fail
\* the request: the response is the greeting around the error text and the
\* server goes on serving; a missing flag, an invalid -certopt, an unreadable
\* certificate, key or CA file and a failed listen leave the process in the
\* fatal state, which it never leaves
C7_OnlyBodyReadIsNotFatal ==
    /\ [](/\ (conn.state = "responded" /\ conn.readFailed)
             => /\ spc = "serving"
                /\ conn.resp = (IF variant = "simple"
                     THEN "Hello, error reading request body: unexpected EOF from Simple Server!"
                     ELSE "Hello, error reading request body: unexpected EOF from Advanced Server!")
          /\ spc \in {"listen", "serving"}
             => /\ sflags.host # "" /\ sflags.srvcert # "" /\ sflags.srvkey # ""
                /\ variant = "advanced" => sflags.cacert # "" /\ sflags.certopt \in 0..4
                /\ sCaRead => ReadFile(sflags.cacert).readable
          /\ spc = "serving"
             => ReadFile(sflags.srvcert).readable /\ ReadFile(sflags.srvkey).readable
          /\ cpc \in {"do", "await", "readbody", "done"}
             => /\ ReadFile(cflags.cacert).readable
                /\ (cflags.clientcert # "" /\ cflags.clientkey # "")
                   => ReadFile(cflags.clientcert).readable /\ ReadFile(cflags.clientkey).readable)
    /\ [][/\ spc = "serving" => spc' = "serving"
          /\ ServerOver => UNCHANGED svars
          /\ cpc = "fatal" => UNCHANGED cvars
          /\ sReadErrors' > sReadErrors => spc' = "serving" /\ conn'.state = "responded"]_vars

C7_Witness ==
    /\ sReadErrors = 1
    /\ spc = "serving"
    /\ conn.state = "responded"
    /\ ~conn.readFailed
    /\ conn.resp = "Hello, World from Simple Server!"

\* C8: every connection either server variant accepts runs TLS 1.2 or
\* higher: a peer offering less never gets an established connection
C8_AtLeastTLS12 ==
    conn.state \in Accepted
    => /\ conn.version >= VersionTLS12
       /\ conn.maxVersion >= VersionTLS12

\* C9: the client calls client.Do at most once; after it the client prints
\* the response and is done, or is in the fatal state with nothing printed;
\* a finished client stays finished
C9_OneRequestNoRetry ==
    /\ [](/\ cRequests <= 1
          /\ cRequests = 1 => cpc \in {"await", "readbody", "done", "fatal"}
          /\ cPrinted.received <=> cpc = "done"
          /\ cpc = "done" => resp.received /\ cPrinted = resp)
    /\ [][/\ cpc \in {"done", "fatal", "exit0"} => UNCHANGED cvars
          /\ cRequests = 1 => cRequests' = 1]_vars

C9_Witness ==
    /\ cRequests = 1
    /\ cpc = "fatal"
    /\ spc = "serving"
    /\ ~resp.received

\* the certificate and key files of this file system that make a pair
LoadablePairs == {<<"client.crt", "client.key">>, <<"rogue.crt", "rogue.key">>}

ExactlyOneGiven == (cflags.clientcert = "") # (cflags.clientkey = "")

=============================================================================
